---- MODULE Spec2Model ----
(***************************************************************************)
(* Fact gathering of the iosxr_facts and junos_facts modules: main() of    *)
(* each module resolves the gather_subset token list into the set of fact  *)
(* subsets to run, constructs one extractor per subset, runs them against  *)
(* the device and returns the namespaced facts.  The parse_snmp_sysdescr   *)
(* module decodes one SNMP system description.                             *)
(*                                                                         *)
(* A token (a Python str) is a sequence of pieces: the piece "!" is the    *)
(* negation character, every other piece is a run of characters holding no *)
(* "!".  "!hardware" is <<"!", "hardware">>, "" is <<>>, "!!all" is        *)
(* <<"!", "!", "all">>.                                                    *)
(***************************************************************************)
EXTENDS Integers, Sequences, FiniteSets, TLC

VARIABLES
    mod,              \* which module's main() runs: "iosxr" or "junos"
    valid_subsets,    \* the module global VALID_SUBSETS
    invocation,       \* 1 in the first invocation of main(), 2 in the second
    first,            \* how the first invocation's resolution ended
    device,           \* the product model of the device the module talks to
    order,            \* the iteration order this process gives a set of str
    gather_subset,    \* module.params['gather_subset']
    sysdescr,         \* module.params['sysdescr'] of parse_snmp_sysdescr
    pc,               \* position in main()
    i,                \* index of the next token of the for loop
    runable_subsets,
    exclude_subsets,
    facts,            \* dict: fact key -> value
    instances,        \* list of extractor instances (by subset name)
    constructed,      \* subsets whose class was instantiated
    commands_called,  \* subsets whose commands() was invoked
    k,                \* index of the next instance of the collect loop
    results,          \* iosxr: the local 'results' of main()
    calls,            \* device calls issued so far (run_commands / send_request)
    populates,        \* populate() invocations so far, each with what it was given
    outcome           \* how the invocation ended

vars == <<mod, valid_subsets, invocation, first, device, order, gather_subset,
          sysdescr, pc, i, runable_subsets, exclude_subsets,
          facts, instances, constructed, commands_called, k, results, calls,
          populates, outcome>>

\* Longest gather_subset list enumerated over SampleTokens.
MaxTokens == 3

Modules == {"iosxr", "junos"}

----------------------------------------------------------------------------
\* The catalogs.

IosxrCatalogOrder ==
    <<"default", "hardware", "interfaces", "config", "multicast", "bgp",
      "isis", "routes", "route_summary", "l2vpn">>

JunosCatalogOrder ==
    <<"default", "hardware", "config", "interfaces", "interfaces_ext",
      "optics", "temperatures", "bgp_summary", "bgp_peers", "snapshots",
      "route_summary", "routes", "isis_overview", "route_engine", "l2vpn">>

IosxrClasses ==
    <<"Default", "Hardware", "Interfaces", "Config", "Multicast", "Bgp",
      "Isis", "Routes", "Route_Summary", "L2vpn">>

JunosClasses ==
    <<"Default", "Hardware", "Config", "Interfaces", "InterfacesExt",
      "Optics", "Temperatures", "BgpSummary", "BgpPeers", "Snapshots",
      "RouteSummary", "Routes", "ISISOverview", "RouteEngine", "L2vpn">>

Range(s) == {s[n] : n \in DOMAIN s}

DictOf(keys, values) ==
    [key \in Range(keys) |->
        values[CHOOSE n \in DOMAIN keys : keys[n] = key]]

IosxrFactSubsets == DictOf(IosxrCatalogOrder, IosxrClasses)

JunosFactSubsets == DictOf(JunosCatalogOrder, JunosClasses)

\* FACT_SUBSETS = dict(default=Default, ...): subset name -> extractor class
FACT_SUBSETS(m) == IF m = "iosxr" THEN IosxrFactSubsets ELSE JunosFactSubsets

\* VALID_SUBSETS = frozenset(FACT_SUBSETS.keys())
VALID_SUBSETS(m) == DOMAIN FACT_SUBSETS(m)

CatalogOrder(m) == IF m = "iosxr" THEN IosxrCatalogOrder ELSE JunosCatalogOrder

Reverse(s) == [n \in DOMAIN s |-> s[Len(s) + 1 - n]]

\* The order in which a set of str is iterated depends on the process's string
\* hashing; two iterations of one unmodified set agree.  Two orders are
\* enumerated.
HashOrders(m) == {CatalogOrder(m), Reverse(CatalogOrder(m))}

\* list(s) / for x in s
ListOf_WholeCatalog(s, ord) == ord
ListOf(s, ord) == SelectSeq(ord, LAMBDA x : x \in s)

----------------------------------------------------------------------------
\* Tokens.

Tok(name) == <<name>>
Not(name) == <<"!", name>>

\* subset.startswith('!')
StartsWithBang(subset) == Len(subset) > 0 /\ Head(subset) = "!"

\* subset[1:]
StripFirst_Kept(subset) == subset
StripFirst(subset) == Tail(subset)

\* subset == 'all'
IsAll(subset) == subset = <<"all">>

\* subset not in VALID_SUBSETS
NotInValidSubsets_AnyName(subset, valid) == Len(subset) # 1
NotInValidSubsets(subset, valid) ==
    ~(Len(subset) = 1 /\ subset[1] \in valid)

\* The tokens every list of at most MaxTokens tokens is built from.
SampleTokens ==
    {Tok("all"), Not("all"), Tok("default"), Not("default"),
     Tok("hardware"), Not("hardware"), Tok("bogus"), Not("bogus"),
     <<"!", "!", "all">>}

\* Names the modules' documentation gives, and names near them.
DocNames ==
    {"all", "hardware", "config", "interfaces", "bgp", "isis", "optics",
     "routesummary", "routes", "interfaces_ext", "temperatures",
     "bgp_summary", "bgp_peers", "snapshots", "route_summary",
     "isis_overview", "route_engine", "l2vpn", "multicast", "bgppeers"}

\* The subset names the iosxr documentation gives: the possible values of
\* gather_subset and the subsets the RETURN entries are conditioned on.
IosxrDocumented ==
    {"all", "hardware", "config", "interfaces", "bgp", "isis", "optics",
     "routesummary", "routes"}

\* The subset names the junos documentation gives as possible values.
JunosDocumented ==
    {"all", "hardware", "config", "interfaces", "interfaces_ext", "optics",
     "temperatures", "bgp_summary", "bgp_peers", "snapshots", "route_summary",
     "routes", "isis_overview", "route_engine", "l2vpn"}

DocumentedSubsets(m) == IF m = "iosxr" THEN IosxrDocumented ELSE JunosDocumented

SeqsUpTo(S, n) == UNION {[1..len -> S] : len \in 0..n}

\* gather_subset=dict(default=[...], type='list')
DefaultGatherSubset(m) ==
    IF m = "iosxr" THEN <<Not("config"), Not("routes")>>
                   ELSE <<Not("config"), Not("routes"), Not("bgppeers")>>

\* The values of module.params['gather_subset'] enumerated.
GatherSubsetInputs(m) ==
    SeqsUpTo(SampleTokens, MaxTokens)
        \cup {<<Tok(n)>> : n \in DocNames}
        \cup {<<Not(n)>> : n \in DocNames}
        \cup {<<Tok("all"), Not(n)>> : n \in DocNames}
        \cup {<<Tok("config"), Tok("hardware")>>, <<>>, <<<<>>>>,
              DefaultGatherSubset(m)}

----------------------------------------------------------------------------
\* The resolver's set operations.

\* runable_subsets.update(VALID_SUBSETS)
IncludeAll_OnlyDefault(run, valid) == run \cup {"default"}
IncludeAll(run, valid) == run \cup valid

\* exclude_subsets.update(VALID_SUBSETS)
ExcludeAll_Ignored(excl, valid) == excl
ExcludeAll(excl, valid) == excl \cup valid

\* runable_subsets.add(subset) / exclude_subsets.add(subset), by the exclude flag:
\* the pair <<runable_subsets, exclude_subsets>> after the token
AddSubset_LastWins(run, excl, name, exclude) ==
    IF exclude THEN <<run \ {name}, excl \cup {name}>>
               ELSE <<run \cup {name}, excl \ {name}>>
AddSubset(run, excl, name, exclude) ==
    IF exclude THEN <<run, excl \cup {name}>>
               ELSE <<run \cup {name}, excl>>

\* if not runable_subsets: runable_subsets.update(VALID_SUBSETS)
UpdateIfEmpty_Never(run, valid) == run
UpdateIfEmpty_Always(run, valid) == run \cup valid
UpdateIfEmpty(run, valid) == IF run = {} THEN run \cup valid ELSE run

\* runable_subsets.difference_update(exclude_subsets)
DifferenceUpdate_Skip(run, excl) == run
DifferenceUpdate(run, excl) == run \ excl

\* runable_subsets.add('default')
AddDefault_Skip(run) == run
AddDefault(run) == run \cup {"default"}

\* The three statements after the loop.
AfterLoop_DifferenceFirst(run, excl, valid) ==
    AddDefault(UpdateIfEmpty(DifferenceUpdate(run, excl), valid))
AfterLoop(run, excl, valid) ==
    AddDefault(DifferenceUpdate(UpdateIfEmpty(run, valid), excl))

\* VALID_SUBSETS after the statements that follow the loop: they update
\* runable_subsets, a set of its own, and never the global.
ValidSubsetsAfter_Differenced(valid, excl) == valid \ excl
ValidSubsetsAfter(valid, excl) == valid

\* The msg of the fail_json call for an invalid subset: its fixed text, the
\* subset names it lists and the subset it names.
BadSubsetMsg(subset, m, valid) ==
    IF m = "iosxr"
    THEN [text |-> "Bad subset", valid |-> {}, got |-> {}]
    ELSE [text |-> "Subset must be one of [%s], got %s",
          valid |-> valid, got |-> {subset}]

NoMsg == [text |-> "", valid |-> {}, got |-> {}]

EmptyDict == [key \in {} |-> <<>>]

\* How the invocation ended: the call that ended it ("error": an exception
\* left main()), the names of the arguments it passed, msg and ansible_facts.
NoOutcome ==
    [kind |-> "none", args |-> {}, msg |-> NoMsg, ansible_facts |-> EmptyDict]


----------------------------------------------------------------------------
\* The extractors.

\* The product models enumerated: every junos extractor but Default, Config,
\* Hardware, Interfaces and InterfacesExt first asks match_model('mx|m|t|ex|qfx').
Devices(m) == IF m = "iosxr" THEN {"iosxr"} ELSE {"mx", "srx"}

\* match_model('mx|m|t|ex|qfx')
MatchModel(dev) == dev = "mx"

\* commands() of the iosxr extractors
IosxrCommands(subset) ==
    CASE subset = "default" -> <<"show version brief", "admin show dsc">>
      [] subset = "hardware" -> <<"dir /all", "show memory summary",
                                  "show environment temperatures",
                                  "show processes cpu">>
      [] subset = "multicast" -> <<"show mfib connections", "show mfib counter",
                                   "show mrib route outgoing-interface">>
      [] subset = "bgp" -> <<"show bgp summary">>
      [] subset = "isis" -> <<"show isis adjacency">>
      [] subset = "config" -> <<"show running-config">>
      [] subset = "l2vpn" -> <<"show l2vpn xconnect">>
      [] subset = "route_summary" -> <<"show route summary">>
      [] subset = "routes" -> <<"show route", "show route ipv6">>
      [] subset = "interfaces" -> <<"show interfaces", "show ipv6 interface",
                                    "show lldp", "show lldp neighbors detail">>

\* The keys populate() of an iosxr extractor writes to self.facts; matched says
\* whether the response held what the optional keys are parsed from.
IosxrFactKeys(subset, matched) ==
    CASE subset = "default" -> {"version", "image", "hostname", "serial"}
      [] subset = "hardware" ->
            {"filesystems", "temp", "CPU %"}
                \cup (IF matched THEN {"memtotal_mb", "memfree_mb"} ELSE {})
      [] subset = "multicast" ->
            {"mfib_connections", "mfib_counter", "mrib_route_outgoing_if"}
      [] subset = "bgp" -> {"bgp_info", "bgp_process", "bgp_table"}
      [] subset = "isis" -> {"ISIS_adjacency"}
      [] subset = "config" -> {"config"}
      [] subset = "l2vpn" -> {"l2vpn"}
      [] subset = "route_summary" -> {"routing_summary"}
      [] subset = "routes" -> {"routing_table_IPv4", "routing_table_IPv6"}
      [] subset = "interfaces" ->
            {"all_ipv4_addresses", "all_ipv6_addresses", "interfaces"}
                \cup (IF matched THEN {"neighbors"} ELSE {})

\* The keys the RETURN documentation of iosxr_facts names for a subset of the
\* catalog (the route summary subset is documented under 'routesummary').
IosxrReturnKeys(subset) ==
    CASE subset = "hardware" ->
            {"ansible_net_filesystems", "ansible_net_memfree_mb",
             "ansible_net_memtotal_mb", "ansible_net_temp",
             "ansible_net_cpu_percentage"}
      [] subset = "isis" -> {"ansible_net_isis_adjacency"}
      [] subset = "routes" ->
            {"ansible_net_routing_table_ipv4", "ansible_net_routing_table_ipv6"}
      [] subset = "route_summary" -> {"ansible_net_routing_summary"}

\* Concatenation of the sequences of a sequence of sequences.
RECURSIVE Flatten(_)
Flatten(ss) == IF ss = <<>> THEN <<>> ELSE Head(ss) \o Flatten(Tail(ss))

\* commands = inst.commands(): the list one run_commands call is given, for
\* the instance at position n of instances.
CommandsOfCall_AllInstances(insts, n) ==
    Flatten([j \in DOMAIN insts |-> IosxrCommands(insts[j])])
CommandsOfCall(insts, n) == IosxrCommands(insts[n])

\* The subsets whose populate() writes a key only when the response matches.
IosxrOptional == {"hardware", "interfaces"}

GetSoftwareInformation == "get-software-information"

\* The requests populate() of a junos extractor sends, in order.
JunosRequests(subset, dev) ==
    CASE subset = "default" -> <<GetSoftwareInformation, "get-chassis-inventory">>
      [] subset = "config" -> <<"get-configuration">>
      [] subset = "hardware" -> <<"get-system-memory-information",
                                  "get-system-storage">>
      [] subset = "interfaces" -> <<"get-interface-information">>
      [] subset = "interfaces_ext" -> <<"get-interface-information">>
      [] subset = "snapshots" ->
            IF MatchModel(dev)
            THEN <<GetSoftwareInformation, GetSoftwareInformation,
                   GetSoftwareInformation, "get-snapshot-information">>
            ELSE <<GetSoftwareInformation>>
      [] OTHER ->
            <<GetSoftwareInformation>> \o
            (IF ~MatchModel(dev) THEN <<>>
             ELSE CASE subset = "optics" ->
                          <<"get-interface-optics-diagnostics-information">>
                    [] subset = "bgp_summary" -> <<"get-bgp-summary-information">>
                    [] subset = "bgp_peers" -> <<"get-bgp-neighbor-information">>
                    [] subset = "temperatures" -> <<"get-environment-information">>
                    [] subset = "route_summary" ->
                          <<"get-route-summary-information">>
                    [] subset = "routes" -> <<"get-route-information">>
                    [] subset = "isis_overview" ->
                          <<"get-isis-overview-information">>
                    [] subset = "route_engine" ->
                          <<"get-route-engine-information">>
                    [] subset = "l2vpn" -> <<"get-l2ckt-connection-information">>)

\* The keys populate() of a junos extractor writes to self.facts.
JunosFactKeys_SharedKey(subset) ==
    CASE subset = "default" -> {"hostname", "version", "model", "serialnum"}
      [] subset = "interfaces_ext" -> {"interfaces"}
      [] OTHER -> {subset}
JunosFactKeys(subset) ==
    CASE subset = "default" -> {"hostname", "version", "model", "serialnum"}
      [] subset = "config" -> {"config"}
      [] subset = "hardware" -> {"memfree_mb", "memtotal_mb", "filesystems"}
      [] subset = "interfaces" -> {"interfaces"}
      [] subset = "interfaces_ext" -> {"interfaces_ext"}
      [] subset = "optics" -> {"optics"}
      [] subset = "bgp_summary" -> {"bgp_summary"}
      [] subset = "bgp_peers" -> {"bgp_neighbors"}
      [] subset = "temperatures" -> {"temperature", "fans"}
      [] subset = "snapshots" -> {"snapshots"}
      [] subset = "route_summary" -> {"route_summary"}
      [] subset = "routes" -> {"routes"}
      [] subset = "isis_overview" -> {"isis_overview"}
      [] subset = "route_engine" -> {"route-engine"}
      [] subset = "l2vpn" -> {"l2vpn"}

\* The responses run_commands returns for the call numbered callno: one per
\* command, in the order of the commands; the n-th is the output of the n-th.
Responses(callno, commands) == [n \in 1..Len(commands) |-> <<callno, n>>]

Min(a, b) == IF a <= b THEN a ELSE b

\* dict(zip(commands, responses)): pairs by position up to the shorter of the
\* two; a later pair replaces an earlier one with the same key.
DictZip_Reversed(commands, responses) ==
    LET len == Min(Len(commands), Len(responses))
    IN  [c \in {commands[n] : n \in 1..len} |->
            responses[len + 1 - (CHOOSE n \in 1..len :
                /\ commands[n] = c
                /\ \A later \in (n + 1)..len : commands[later] # c)]]
DictZip(commands, responses) ==
    LET len == Min(Len(commands), Len(responses))
    IN  [c \in {commands[n] : n \in 1..len} |->
            responses[CHOOSE n \in 1..len :
                /\ commands[n] = c
                /\ \A later \in (n + 1)..len : commands[later] # c]]

\* inst.facts after a populate() that returned: every key holds a value
\* parsed by the extractor of that subset.
InstFacts(keys, subset) == [key \in keys |-> <<subset>>]

\* facts.update(inst.facts)
Update_Replaced(dict, other) == other
Update(dict, other) == other @@ dict

\* key = 'ansible_net_%s' % key
Namespaced_Bare(key) == key
Namespaced(key) == "ansible_net_" \o key

\* ansible_facts: every key of facts, prefixed
AnsibleFacts(dict) ==
    [key \in {Namespaced(f) : f \in DOMAIN dict} |->
        dict[CHOOSE f \in DOMAIN dict : Namespaced(f) = key]]

----------------------------------------------------------------------------

\* Nothing is known of the first resolution before it has ended.
NoFirst == [failed |-> FALSE, RunSet |-> {}, msg |-> NoMsg]

Init ==
    /\ mod \in Modules
    /\ valid_subsets = VALID_SUBSETS(mod)
    /\ invocation = 1
    /\ first = NoFirst
    /\ device \in Devices(mod)
    /\ order \in HashOrders(mod)
    /\ gather_subset \in GatherSubsetInputs(mod)
    /\ sysdescr = <<>>
    /\ pc = "resolve"
    /\ i = 1
    /\ runable_subsets = {}
    /\ exclude_subsets = {}
    /\ facts = EmptyDict
    /\ instances = <<>>
    /\ constructed = {}
    /\ commands_called = {}
    /\ k = 1
    /\ results = [bound |-> FALSE, of |-> "", value |-> EmptyDict]
    /\ calls = <<>>
    /\ populates = <<>>
    /\ outcome = NoOutcome

\* module.fail_json(msg=...): reports the failure and ends the process.
fail_json_Returns(msg) ==
    /\ outcome' = [NoOutcome EXCEPT !.kind = "fail_json", !.args = {"msg"},
                                    !.msg = msg]
    /\ pc' = pc
    /\ i' = i + 1
fail_json(msg) ==
    /\ outcome' = [NoOutcome EXCEPT !.kind = "fail_json", !.args = {"msg"},
                                    !.msg = msg]
    /\ pc' = "exited"
    /\ i' = i

\* One iteration of 'for subset in gather_subset'.
ResolveToken ==
    /\ pc = "resolve"
    /\ i <= Len(gather_subset)
    /\ LET token == gather_subset[i]
           exclude == StartsWithBang(token)
           subset == IF exclude THEN StripFirst(token) ELSE token
       IN  IF IsAll(token)
           THEN /\ runable_subsets' = IncludeAll(runable_subsets, valid_subsets)
                /\ i' = i + 1
                /\ UNCHANGED <<exclude_subsets, pc, outcome>>
           ELSE IF exclude /\ IsAll(subset)
           THEN /\ exclude_subsets' = ExcludeAll(exclude_subsets, valid_subsets)
                /\ i' = i + 1
                /\ UNCHANGED <<runable_subsets, pc, outcome>>
           ELSE IF NotInValidSubsets(subset, valid_subsets)
           THEN /\ fail_json(BadSubsetMsg(subset, mod, valid_subsets))
                /\ UNCHANGED <<runable_subsets, exclude_subsets>>
           ELSE LET after == AddSubset(runable_subsets, exclude_subsets,
                                       subset[1], exclude)
                IN  /\ runable_subsets' = after[1]
                    /\ exclude_subsets' = after[2]
                    /\ i' = i + 1
                    /\ UNCHANGED <<pc, outcome>>
    /\ UNCHANGED <<mod, sysdescr, valid_subsets, invocation, first, device, order,
                   gather_subset, facts, instances, constructed,
                   commands_called, k, results, calls, populates>>

\* The statements between the token loop and the instances loop.
FinishResolve ==
    /\ pc = "resolve"
    /\ i > Len(gather_subset)
    /\ runable_subsets' =
           AfterLoop(runable_subsets, exclude_subsets, valid_subsets)
    /\ valid_subsets' = ValidSubsetsAfter(valid_subsets, exclude_subsets)
    /\ facts' = [key \in {"gather_subset"} |-> ListOf(runable_subsets', order)]
    /\ pc' = "construct"
    /\ UNCHANGED <<mod, sysdescr, invocation, first, device, order,
                   gather_subset, i, exclude_subsets, instances,
                   constructed, commands_called, k, results, calls, populates,
                   outcome>>

\* for key in runable_subsets: instances.append(FACT_SUBSETS[key](...));
\* the iosxr FactsBase.__init__ calls self.commands().
ConstructInstances ==
    /\ pc = "construct"
    /\ IF runable_subsets \subseteq DOMAIN FACT_SUBSETS(mod)
       THEN /\ instances' = ListOf(runable_subsets, order)
            /\ constructed' = Range(instances')
            /\ commands_called' =
                   IF mod = "iosxr" THEN Range(instances') ELSE commands_called
            /\ pc' = "collect"
            /\ outcome' = outcome
       ELSE /\ outcome' = [NoOutcome EXCEPT !.kind = "error",
                                            !.msg.text = "KeyError"]
            /\ pc' = "exited"
            /\ UNCHANGED <<instances, constructed, commands_called>>
    /\ UNCHANGED <<mod, sysdescr, valid_subsets, invocation, first, device, order,
                   gather_subset, i, runable_subsets,
                   exclude_subsets, facts, k, results, calls, populates>>

\* except Exception: module.exit_json(out=module.from_json(results)), entered
\* with 'results' as the failed iteration left it.  from_json is the
\* framework's; parsed says whether it returned.
IosxrHandler(res, parsed) ==
    IF ~res.bound
    THEN [NoOutcome EXCEPT !.kind = "error", !.msg.text = "UnboundLocalError"]
    ELSE IF ~parsed
    THEN [NoOutcome EXCEPT !.kind = "error", !.msg.text = "from_json"]
    ELSE [NoOutcome EXCEPT !.kind = "exit_json", !.args = {"out"}]

\* One iteration of the iosxr 'for inst in instances' inside the try.
IosxrCollect ==
    /\ pc = "collect"
    /\ mod = "iosxr"
    /\ k <= Len(instances)
    /\ LET inst == instances[k]
           commands == CommandsOfCall(instances, k)
       IN  /\ commands_called' = commands_called \cup {inst}
           /\ calls' = Append(calls, [op |-> "run_commands", by |-> inst,
                                      commands |-> commands])
           /\ \E step \in {"ok", "run_commands", "populate"},
                 matched, parsed \in BOOLEAN :
                /\ matched \/ (step = "ok" /\ inst \in IosxrOptional)
                /\ parsed \/ (step = "populate")
                          \/ (step = "run_commands" /\ results.bound)
                /\ results' =
                       IF step = "run_commands" THEN results
                       ELSE [bound |-> TRUE, of |-> inst,
                             value |-> DictZip(commands,
                                          Responses(Len(calls'), commands))]
                /\ populates' =
                       IF step = "run_commands" THEN populates
                       ELSE Append(populates,
                                [by |-> inst, results |-> results'.value,
                                 calls_before |-> Len(calls')])
                /\ IF step = "ok"
                   THEN /\ facts' = Update(facts,
                               InstFacts(IosxrFactKeys(inst, matched), inst))
                        /\ k' = k + 1
                        /\ UNCHANGED <<pc, outcome>>
                   ELSE /\ outcome' = IosxrHandler(results', parsed)
                        /\ pc' = "exited"
                        /\ UNCHANGED <<facts, k>>
    /\ UNCHANGED <<mod, sysdescr, valid_subsets, invocation, first, device, order,
                   gather_subset, i, runable_subsets,
                   exclude_subsets, instances, constructed>>

\* One iteration of the junos 'for inst in instances': inst.populate() sends
\* its requests up to the one that raised, if one did.
JunosCollect ==
    /\ pc = "collect"
    /\ mod = "junos"
    /\ k <= Len(instances)
    /\ LET inst == instances[k]
           requests == JunosRequests(inst, device)
       IN  \E sent \in {1, Len(requests)}, raised \in BOOLEAN :
                /\ raised \/ sent = Len(requests)
                /\ calls' = Append(calls, [op |-> "send_request", by |-> inst,
                                           commands |-> SubSeq(requests, 1, sent)])
                /\ populates' = Append(populates,
                                    [by |-> inst, results |-> EmptyDict,
                                     calls_before |-> Len(calls)])
                /\ IF ~raised
                   THEN /\ facts' = Update(facts,
                               InstFacts(JunosFactKeys(inst), inst))
                        /\ k' = k + 1
                        /\ UNCHANGED <<pc, outcome>>
                   ELSE /\ outcome' = [NoOutcome EXCEPT !.kind = "error",
                                          !.msg.text = "populate"]
                        /\ pc' = "exited"
                        /\ UNCHANGED <<facts, k>>
    /\ UNCHANGED <<mod, sysdescr, valid_subsets, invocation, first, device, order,
                   gather_subset, i, runable_subsets,
                   exclude_subsets, instances, constructed, commands_called,
                   results>>

\* The namespacing loop and module.exit_json(ansible_facts=..., warnings=...).
ExitJson ==
    /\ pc = "collect"
    /\ k > Len(instances)
    /\ outcome' = [NoOutcome EXCEPT !.kind = "exit_json",
                                    !.args = {"ansible_facts", "warnings"},
                                    !.ansible_facts = AnsibleFacts(facts)]
    /\ pc' = "exited"
    /\ UNCHANGED <<mod, sysdescr, valid_subsets, invocation, first, device, order,
                   gather_subset, i, runable_subsets,
                   exclude_subsets, facts, instances, constructed,
                   commands_called, k, results, calls, populates>>

\* main() is entered again, in the same process and with the same parameters,
\* after the first invocation has ended: its locals are new, the module
\* globals are what the first invocation left.
InvokeAgain ==
    /\ invocation = 1
    /\ pc = "exited"
    /\ invocation' = 2
    /\ first' = [failed |-> outcome.kind = "fail_json",
                 RunSet |-> runable_subsets,
                 msg |-> IF outcome.kind = "fail_json" THEN outcome.msg
                         ELSE NoMsg]
    /\ pc' = "resolve"
    /\ i' = 1
    /\ runable_subsets' = {}
    /\ exclude_subsets' = {}
    /\ facts' = EmptyDict
    /\ instances' = <<>>
    /\ constructed' = {}
    /\ commands_called' = {}
    /\ k' = 1
    /\ results' = [bound |-> FALSE, of |-> "", value |-> EmptyDict]
    /\ calls' = <<>>
    /\ populates' = <<>>
    /\ outcome' = NoOutcome
    /\ UNCHANGED <<mod, sysdescr, valid_subsets, device, order, gather_subset>>

Next ==
    \/ ResolveToken
    \/ FinishResolve
    \/ ConstructInstances
    \/ IosxrCollect
    \/ JunosCollect
    \/ ExitJson

Spec == Init /\ [][Next]_vars

\* Two invocations of main(), one after the other.
NextTwice == Next \/ InvokeAgain

SpecTwice == Init /\ [][NextTwice]_vars

\* The other lists of at most MaxTokens tokens made of the tokens of list g:
\* its permutations and the lists that repeat or drop repetitions of its
\* tokens.
Rearrangements(g) ==
    {h \in SeqsUpTo(Range(g), MaxTokens) : Range(h) = Range(g) /\ h # g}

\* main() is entered again with a rearrangement of the tokens of the first
\* invocation's gather_subset; what the first resolution gave is kept for
\* comparison.
InvokeRearranged ==
    /\ invocation = 1
    /\ pc = "exited"
    /\ invocation' = 2
    /\ first' = [failed |-> outcome.kind = "fail_json",
                 RunSet |-> IF outcome.kind = "fail_json" THEN {}
                            ELSE runable_subsets,
                 msg |-> NoMsg]
    /\ gather_subset' \in Rearrangements(gather_subset)
    /\ pc' = "resolve"
    /\ i' = 1
    /\ runable_subsets' = {}
    /\ exclude_subsets' = {}
    /\ facts' = EmptyDict
    /\ instances' = <<>>
    /\ constructed' = {}
    /\ commands_called' = {}
    /\ k' = 1
    /\ results' = [bound |-> FALSE, of |-> "", value |-> EmptyDict]
    /\ calls' = <<>>
    /\ populates' = <<>>
    /\ outcome' = NoOutcome
    /\ UNCHANGED <<mod, sysdescr, valid_subsets, device, order>>

NextRearranged == Next \/ InvokeRearranged

\* An invocation of main() followed by one with the same tokens rearranged.
SpecRearranged == Init /\ [][NextRearranged]_vars

----------------------------------------------------------------------------
\* parse_snmp_sysdescr.  A system description (a Python str) is a sequence of
\* pieces: "," is a comma, " " a run of whitespace, every other piece a word,
\* a maximal run of characters that are neither; no two words are adjacent.

\* Longest system description enumerated over SamplePieces.
MaxPieces == 5

SamplePieces == {"Cisco", "IOS", "Software", "Version", "Juniper", ",", " "}

IsWord(piece) == piece \notin {",", " "}

WellFormed(str) ==
    \A n \in 1..(Len(str) - 1) : ~(IsWord(str[n]) /\ IsWord(str[n + 1]))

CiscoIosSample ==
    <<"Cisco", " ", "IOS", " ", "Software", ",", " ", "C3750", " ",
      "Software", " ", "(C3750-IPSERVICESK9-M)", ",", " ", "Version", " ",
      "12.2(55)SE", ",", " ", "RELEASE", " ", "SOFTWARE", " ", "(fc1)">>

CiscoXrSample ==
    <<"Cisco", " ", "IOS", " ", "XR", " ", "Software", " ", "(Cisco", " ",
      "ASR9K", " ", "Series)", ",", " ", "Version", " ", "5.3.3[Default]">>

JuniperSample ==
    <<"Juniper", " ", "Networks", ",", " ", "Inc.", " ", "mx960", " ",
      "internet", " ", "router", ",", " ", "kernel", " ", "JUNOS", " ",
      "14.2R7.5", ",", " ", "Build", " ", "date:", " ", "2016-10-26", " ",
      "23:53:42", " ", "UTC">>

Prefixes(str) == {SubSeq(str, 1, n) : n \in 0..Len(str)}

\* The values of module.params['sysdescr'] enumerated.
SysdescrInputs ==
    {str \in SeqsUpTo(SamplePieces, MaxPieces) : WellFormed(str)}
        \cup Prefixes(CiscoIosSample) \cup Prefixes(CiscoXrSample)
        \cup Prefixes(JuniperSample)

\* str.split(','): the pieces between the commas; one more segment than
\* there are commas, empty segments kept.
RECURSIVE SplitComma(_)
SplitComma(str) ==
    IF \A n \in DOMAIN str : str[n] # ","
    THEN <<str>>
    ELSE LET at == CHOOSE n \in DOMAIN str :
                        str[n] = "," /\ \A m \in 1..(n - 1) : str[m] # ","
         IN  <<SubSeq(str, 1, at - 1)>>
                \o SplitComma(SubSeq(str, at + 1, Len(str)))

\* str.split(): the words, whitespace dropped, no empty token.
SplitWhitespace(str) == SelectSeq(str, IsWord)

\* str.lower() of a word
Lower(word) ==
    CASE word = "Cisco" -> "cisco"
      [] word = "(Cisco" -> "(cisco"
      [] word = "IOS" -> "ios"
      [] word = "XR" -> "xr"
      [] word = "Software" -> "software"
      [] word = "SOFTWARE" -> "software"
      [] word = "Version" -> "version"
      [] word = "Juniper" -> "juniper"
      [] word = "Networks" -> "networks"
      [] word = "Inc." -> "inc."
      [] word = "JUNOS" -> "junos"
      [] word = "Build" -> "build"
      [] word = "UTC" -> "utc"
      [] word = "RELEASE" -> "release"
      [] word = "C3750" -> "c3750"
      [] word = "(C3750-IPSERVICESK9-M)" -> "(c3750-ipservicesk9-m)"
      [] word = "12.2(55)SE" -> "12.2(55)se"
      [] word = "ASR9K" -> "asr9k"
      [] word = "Series)" -> "series)"
      [] word = "5.3.3[Default]" -> "5.3.3[default]"
      [] word = "14.2R7.5" -> "14.2r7.5"
      [] OTHER -> word

\* re.search('version', string, re.IGNORECASE) on a segment
SearchVersion(segment) ==
    \E n \in DOMAIN segment : Lower(segment[n]) = "version"

Unknown == "Unknown"

OsKeys ==
    {"ansible_os_vendor", "ansible_os_model", "ansible_os_type",
     "ansible_os_version", "ansible_os_buildtime"}

\* What decode_os gives: the dict it returns, or the error it raises.
Returned(vendor, model, type, version, buildtime) ==
    [raised |-> "",
     results |-> [key \in OsKeys |->
        CASE key = "ansible_os_vendor" -> vendor
          [] key = "ansible_os_model" -> model
          [] key = "ansible_os_type" -> type
          [] key = "ansible_os_version" -> version
          [] key = "ansible_os_buildtime" -> buildtime]]

Raised(error) == [raised |-> error, results |-> EmptyDict]

\* decode_os(sysdescr); tokens[n][m] of the code is tokens[n + 1][m + 1] here.
decode_os(str) ==
    LET desc == SplitComma(str)
        tokens == [n \in DOMAIN desc |-> SplitWhitespace(desc[n])]
    IN  IF Len(tokens[1]) < 1 THEN Raised("IndexError")
        ELSE LET os_vendor == tokens[1][1] IN
        IF Lower(tokens[1][1]) = "cisco"
        THEN IF Len(tokens[1]) < 3 THEN Raised("IndexError")
             ELSE LET os_type ==
                          IF Lower(tokens[1][3]) = "software"
                          THEN Lower(tokens[1][2])
                          ELSE Lower(tokens[1][2]) \o "_" \o Lower(tokens[1][3])
                      found == {n \in DOMAIN desc : SearchVersion(desc[n])}
                  IN  IF found = {}
                      THEN Returned(os_vendor, Unknown, os_type, Unknown,
                                    Unknown)
                      ELSE LET at == CHOOSE n \in found :
                                        \A m \in found : n <= m
                           IN  IF Len(tokens[at]) < 2
                               THEN Raised("IndexError")
                               ELSE Returned(os_vendor, Unknown, os_type,
                                             tokens[at][2], Unknown)
        ELSE IF Lower(tokens[1][1]) = "juniper"
        THEN IF Len(desc) < 3 THEN Raised("KeyError")
             ELSE IF Len(tokens[3]) < 2 \/ Len(tokens[2]) < 2
                        \/ Len(tokens[3]) < 3
             THEN Raised("IndexError")
             ELSE IF Len(desc) < 4 THEN Raised("KeyError")
             ELSE IF Len(tokens[4]) < 4 THEN Raised("IndexError")
             ELSE Returned(os_vendor, tokens[2][2], Lower(tokens[3][2]),
                           tokens[3][3],
                           tokens[4][3] \o " " \o tokens[4][4])
        ELSE Returned(os_vendor, Unknown, Unknown, Unknown, Unknown)

InitDecode ==
    /\ mod = "parse_snmp_sysdescr"
    /\ valid_subsets = {}
    /\ invocation = 1
    /\ first = NoFirst
    /\ device = "none"
    /\ order = <<>>
    /\ gather_subset = <<>>
    /\ sysdescr \in SysdescrInputs
    /\ pc = "decode"
    /\ i = 1
    /\ runable_subsets = {}
    /\ exclude_subsets = {}
    /\ facts = EmptyDict
    /\ instances = <<>>
    /\ constructed = {}
    /\ commands_called = {}
    /\ k = 1
    /\ results = [bound |-> FALSE, of |-> "", value |-> EmptyDict]
    /\ calls = <<>>
    /\ populates = <<>>
    /\ outcome = NoOutcome

\* results = decode_os(m_args['sysdescr']); an error decode_os raises ends
\* main().
DecodeOs ==
    /\ pc = "decode"
    /\ LET decoded == decode_os(sysdescr)
       IN  IF decoded.raised = ""
           THEN /\ results' = [bound |-> TRUE, of |-> "decode_os",
                               value |-> decoded.results]
                /\ pc' = "decoded"
                /\ outcome' = outcome
           ELSE /\ outcome' = [NoOutcome EXCEPT !.kind = "error",
                                                !.msg.text = decoded.raised]
                /\ pc' = "exited"
                /\ results' = results
    /\ UNCHANGED <<mod, sysdescr, valid_subsets, invocation, first, device,
                   order, gather_subset, i, runable_subsets, exclude_subsets,
                   facts, instances, constructed, commands_called, k, calls,
                   populates>>

\* module.exit_json(ansible_facts=results)
DecodeExitJson ==
    /\ pc = "decoded"
    /\ outcome' = [NoOutcome EXCEPT !.kind = "exit_json",
                                    !.args = {"ansible_facts"},
                                    !.ansible_facts = results.value]
    /\ pc' = "exited"
    /\ UNCHANGED <<mod, sysdescr, valid_subsets, invocation, first, device,
                   order, gather_subset, i, runable_subsets, exclude_subsets,
                   facts, instances, constructed, commands_called, k, results,
                   calls, populates>>

NextDecode ==
    \/ DecodeOs
    \/ DecodeExitJson

\* One invocation of main() of parse_snmp_sysdescr.
SpecDecode == InitDecode /\ [][NextDecode]_vars

----------------------------------------------------------------------------
\* What the properties speak of.

Tokens == Range(gather_subset)

\* The resolution succeeded: main() is past the token loop and the statements
\* after it, and no invalid subset was reported.
Resolved == pc # "resolve" /\ outcome.kind # "fail_json"

RunSet == runable_subsets

ValidNames == VALID_SUBSETS(mod)

\* 'all', '!all', a valid subset name or '!' followed by a valid subset name
ValidToken(t) ==
    \/ t \in {Tok("all"), Not("all")}
    \/ \E n \in ValidNames : t \in {Tok(n), Not(n)}

AllTokensValid == \A t \in Tokens : ValidToken(t)

\* I: the positively named subsets, all of them if 'all' occurs
Included ==
    {n \in ValidNames : Tok(n) \in Tokens}
        \cup (IF Tok("all") \in Tokens THEN ValidNames ELSE {})

\* E: the negated names, all of them if '!all' occurs
Negated ==
    {n \in ValidNames : Not(n) \in Tokens}
        \cup (IF Not("all") \in Tokens THEN ValidNames ELSE {})

NoNegation == \A t \in Tokens : t = <<>> \/ t[1] # "!"

\* C1: In both modules, whenever the resolution of a token list succeeds,
\* 'default' is a member of the RunSet, also for ["!all"], ["!default"] and
\* lists that both name and negate default.
C1_DefaultAlwaysInRunSet == Resolved => "default" \in RunSet

C1_Witness ==
    /\ Resolved
    /\ {Tok("default"), Not("default"), Not("all")} \subseteq Tokens
    /\ "default" \in RunSet

\* C2: For every list of valid tokens the RunSet is ((I if I is non-empty,
\* else validNames) minus E) union {default}.
C2_RunSetFormula ==
    (Resolved /\ AllTokensValid) =>
        RunSet = ((IF Included # {} THEN Included ELSE ValidNames) \ Negated)
                     \cup {"default"}

C2_Witness ==
    /\ Resolved
    /\ gather_subset = <<Tok("hardware"), Not("all"), Tok("default")>>
    /\ RunSet = {"default"}

\* C3: In both modules, a token that after stripping a leading '!' is
\* neither 'all' nor a catalog name makes the invocation fail with a message
\* that names the offending subset and lists the valid subset names.
C3_BadSubsetMessage ==
    outcome.kind = "fail_json" =>
        LET token == gather_subset[i]
            subset == IF StartsWithBang(token) THEN Tail(token) ELSE token
        IN  /\ outcome.msg.got = {subset}
            /\ outcome.msg.valid = ValidNames

\* C4: In every run whose token list holds an unknown subset name at any
\* position, no extractor is ever constructed or populated and no
\* run_commands / send_request call is ever issued, and the run can only end
\* with the invalid-subset failure.
C4_FailBeforeAnyDeviceCall ==
    (\E t \in Tokens : ~ValidToken(t)) =>
        /\ calls = <<>>
        /\ instances = <<>>
        /\ constructed = {}
        /\ commands_called = {}
        /\ facts = EmptyDict
        /\ pc \in {"resolve", "exited"}
        /\ pc = "exited" => outcome.kind = "fail_json"

C4_Witness ==
    /\ outcome.kind = "fail_json"
    /\ pc = "exited"
    /\ gather_subset = <<Tok("all"), Tok("hardware"), Tok("bogus")>>
    /\ calls = <<>>

\* C5: For every valid token list that contains 'all' and no negated token,
\* the RunSet is the full set of valid subset names.
C5_AllWithoutNegation ==
    (Resolved /\ AllTokensValid /\ Tok("all") \in Tokens /\ NoNegation) =>
        RunSet = ValidNames

C5_Witness ==
    /\ Resolved
    /\ gather_subset = <<Tok("hardware"), Tok("all")>>
    /\ RunSet = ValidNames

\* C6: Resolving the empty token list gives the full set of valid subset
\* names plus default, and so does resolving ["all"].
C6_EmptyListSameAsAll ==
    (Resolved /\ gather_subset \in {<<>>, <<Tok("all")>>}) =>
        RunSet = ValidNames \cup {"default"}

C6_Witness == Resolved /\ gather_subset = <<>> /\ RunSet = ValidNames

\* C7: For every non-empty list of positive valid subset names (no 'all', no
\* negation) the RunSet is exactly the named subsets plus default.
C7_OnlyNamedSubsets ==
    (/\ Resolved
     /\ gather_subset # <<>>
     /\ \A t \in Tokens : \E n \in ValidNames : t = Tok(n)) =>
        RunSet = {n \in ValidNames : Tok(n) \in Tokens} \cup {"default"}

C7_Witness ==
    /\ Resolved
    /\ gather_subset = <<Tok("config"), Tok("hardware")>>
    /\ RunSet = {"config", "hardware", "default"}

\* C8: For every valid subset name X other than default, a valid token list
\* that contains 'all' and '!X' and no other negation resolves to every
\* valid name except X, default included.
C8_AllButOne ==
    \A X \in ValidNames \ {"default"} :
        (/\ Resolved
         /\ AllTokensValid
         /\ {Tok("all"), Not(X)} \subseteq Tokens
         /\ \A t \in Tokens : StartsWithBang(t) => t = Not(X)) =>
            /\ RunSet = ValidNames \ {X}
            /\ "default" \in RunSet

C8_Witness ==
    /\ Resolved
    /\ gather_subset = <<Tok("all"), Not("hardware")>>
    /\ RunSet = ValidNames \ {"hardware"}

\* C9: For every non-empty list of negated valid subset names (no 'all', no
\* '!all', no positive name) the RunSet is every valid name except the
\* negated ones, with default added back.
C9_OnlyNegations ==
    (/\ Resolved
     /\ gather_subset # <<>>
     /\ \A t \in Tokens : \E n \in ValidNames : t = Not(n)) =>
        RunSet = (ValidNames \ {n \in ValidNames : Not(n) \in Tokens})
                     \cup {"default"}

C9_Witness ==
    /\ Resolved
    /\ gather_subset = <<Not("hardware")>>
    /\ RunSet = ValidNames \ {"hardware"}

\* C10: Negation wins over inclusion: for every valid name X other than
\* default, if the list contains '!X' or '!all', X is not in the RunSet,
\* wherever the negation stands and however X is included.
C10_NegationWins ==
    \A X \in ValidNames \ {"default"} :
        (Resolved /\ (Not(X) \in Tokens \/ Not("all") \in Tokens)) =>
            X \notin RunSet

C10_Witness ==
    /\ Resolved
    /\ gather_subset = <<Not("hardware"), Tok("hardware"), Tok("all")>>
    /\ "hardware" \notin RunSet

Completed ==
    /\ pc = "exited"
    /\ outcome.kind = "exit_json"
    /\ "ansible_facts" \in outcome.args

\* The invocation ended after a run_commands call, a request or a populate
\* step of a selected subset failed.
CollectFailed == pc = "exited" /\ instances # <<>> /\ k <= Len(instances)

\* C12: When gather_subset is not supplied to iosxr_facts, the default token
\* list resolves successfully to every valid subset except config and routes,
\* default included.
C12_IosxrDefaultList ==
    (/\ mod = "iosxr"
     /\ gather_subset = DefaultGatherSubset("iosxr")
     /\ pc # "resolve") =>
        /\ outcome.kind # "fail_json"
        /\ RunSet = ValidNames \ {"config", "routes"}
        /\ "default" \in RunSet

C12_Witness ==
    /\ mod = "iosxr"
    /\ gather_subset = DefaultGatherSubset("iosxr")
    /\ Completed
    /\ RunSet = {"default", "hardware", "interfaces", "multicast", "bgp",
                 "isis", "route_summary", "l2vpn"}

\* C13: When gather_subset is not supplied to junos_facts, the default token
\* list resolves successfully and the RunSet is every valid subset except
\* config, bgp_peers and routes.
C13_JunosDefaultList ==
    (/\ mod = "junos"
     /\ gather_subset = DefaultGatherSubset("junos")
     /\ pc # "resolve") =>
        /\ outcome.kind # "fail_json"
        /\ RunSet = ValidNames \ {"config", "bgp_peers", "routes"}

\* C14 as stated: in one invocation the command runner is invoked exactly
\* once, with the commands of all selected subsets together, and every
\* populate step runs after that single call.
C14_RunnerInvokedOnce ==
    (mod = "iosxr" /\ Completed) =>
        /\ Len(calls) = 1
        /\ \A s \in RunSet :
                Range(IosxrCommands(s)) \subseteq Range(calls[1].commands)
        /\ \A j \in DOMAIN populates : populates[j].calls_before = 1

\* C14 as amended: in one iosxr_facts invocation the command runner is
\* invoked once per selected subset, each time with that subset's own
\* commands only, and a subset's populate step runs only after that
\* subset's own call has returned, before the next subset's call.
C14_RunnerOncePerSubset ==
    mod = "iosxr" =>
        /\ Len(calls) <= Len(instances)
        /\ \A j \in DOMAIN calls :
                /\ calls[j].op = "run_commands"
                /\ calls[j].by = instances[j]
                /\ calls[j].commands = IosxrCommands(instances[j])
        /\ \A j \in DOMAIN populates :
                /\ populates[j].by = instances[j]
                /\ populates[j].calls_before = j
        /\ Completed =>
                /\ Len(calls) = Cardinality(RunSet)
                /\ {calls[j].by : j \in DOMAIN calls} = RunSet

C14_Witness ==
    /\ mod = "iosxr"
    /\ Completed
    /\ Len(calls) = 2
    /\ Len(populates) = 2
    /\ RunSet = {"default", "hardware"}

\* C15: Every invocation whose subset resolution succeeds ends with an
\* output that holds the key ansible_net_gather_subset, whose value lists
\* exactly the members of the RunSet, each once, also when a later command
\* run or populate step fails.
C15_GatherSubsetAlwaysReturned ==
    (pc = "exited" /\ outcome.kind # "fail_json") =>
        /\ "ansible_net_gather_subset" \in DOMAIN outcome.ansible_facts
        /\ LET listed == outcome.ansible_facts["ansible_net_gather_subset"]
           IN  /\ Range(listed) = RunSet
               /\ Len(listed) = Cardinality(RunSet)

\* C16: Every key of the fact map returned to the caller is the prefix
\* 'ansible_net_' followed by a key written by gather_subset or by the
\* populate step of an executed subset; no un-prefixed key is returned.
C16_ReturnedKeysNamespaced ==
    \A key \in DOMAIN outcome.ansible_facts :
        /\ key \notin DOMAIN facts
        /\ \E f \in DOMAIN facts :
            /\ key = "ansible_net_" \o f
            /\ \/ f = "gather_subset"
               \/ \E j \in DOMAIN populates :
                    /\ facts[f] = <<populates[j].by>>
                    /\ f \in (IF mod = "iosxr"
                              THEN IosxrFactKeys(populates[j].by, TRUE)
                              ELSE JunosFactKeys(populates[j].by))

C16_Witness ==
    /\ Completed
    /\ {"ansible_net_gather_subset", "ansible_net_CPU %", "ansible_net_serial"}
           \subseteq DOMAIN outcome.ansible_facts

\* C17: An extractor is constructed, asked for commands() and populated only
\* if its subset is in the RunSet; no device call is made for a subset that
\* is not selected, and in iosxr_facts no command of a non-selected subset
\* is ever sent.
C17_OnlySelectedSubsetsRun ==
    /\ pc = "resolve" =>
            constructed = {} /\ commands_called = {} /\ calls = <<>>
                /\ populates = <<>>
    /\ pc # "resolve" =>
            /\ constructed \subseteq RunSet
            /\ commands_called \subseteq RunSet
            /\ \A j \in DOMAIN populates : populates[j].by \in RunSet
            /\ \A j \in DOMAIN calls : calls[j].by \in RunSet
            /\ mod = "iosxr" =>
                 \A j \in DOMAIN calls : \A s \in ValidNames \ RunSet :
                    Range(calls[j].commands) \cap Range(IosxrCommands(s)) = {}

C17_Witness ==
    /\ Completed
    /\ mod = "iosxr"
    /\ gather_subset = <<Tok("hardware")>>
    /\ constructed = {"hardware", "default"}
    /\ commands_called = {"hardware", "default"}
    /\ Len(calls) = 2

\* C18: In iosxr_facts, whenever a subset's populate step is invoked, the
\* mapping it receives has exactly that subset's commands() strings as keys,
\* and the n-th command maps to the n-th response the runner returned for
\* that list.
C18_PopulateGetsOwnResponses ==
    mod = "iosxr" =>
        \A j \in DOMAIN populates :
            LET given == populates[j].results
                own == IosxrCommands(populates[j].by)
            IN  /\ DOMAIN given = Range(own)
                /\ \A n \in DOMAIN own :
                        given[own[n]] = <<populates[j].calls_before, n>>

C18_Witness ==
    /\ mod = "iosxr"
    /\ \E j \in DOMAIN populates :
        /\ populates[j].by = "interfaces"
        /\ populates[j].calls_before = 3
        /\ populates[j].results["show lldp"] = <<3, 3>>

\* C19: When the command run or the populate step of one selected subset
\* fails, the invocation still returns the namespaced facts gathered before
\* the failure.
C19_PartialResultOnFailure ==
    CollectFailed =>
        /\ outcome.kind = "exit_json"
        /\ \A f \in DOMAIN facts :
                ("ansible_net_" \o f) \in DOMAIN outcome.ansible_facts

\* C20: For every token list whose resolution succeeds and whose device
\* commands all succeed, the returned facts hold the default subset's keys,
\* whatever other subsets were requested or excluded.
C20_DefaultFactsReturned ==
    Completed =>
        (IF mod = "iosxr"
         THEN {"ansible_net_version", "ansible_net_hostname",
               "ansible_net_image", "ansible_net_serial"}
         ELSE {"ansible_net_hostname", "ansible_net_version",
               "ansible_net_model", "ansible_net_serialnum"})
            \subseteq DOMAIN outcome.ansible_facts

C20_Witness ==
    /\ Completed
    /\ mod = "junos"
    /\ gather_subset = <<Not("default"), Tok("hardware")>>
    /\ "ansible_net_serialnum" \in DOMAIN outcome.ansible_facts

\* C21: Every subset name a module's documentation gives as a possible
\* gather_subset value or as the condition of a returned fact is accepted by
\* that module's resolver, alone and negated, without an invalid-subset
\* failure.
C21_DocumentedNamesAccepted ==
    \A n \in DocumentedSubsets(mod) :
        (gather_subset \in {<<Tok(n)>>, <<Not(n)>>} /\ pc # "resolve") =>
            outcome.kind # "fail_json"

\* C22: In iosxr_facts, when a subset is in the RunSet and its commands
\* succeed and parse, the keys it contributes to the output are the ones the
\* RETURN documentation names for it, for hardware, isis, routes and the
\* route summary.
C22_DocumentedKeysReturned ==
    (mod = "iosxr" /\ Completed) =>
        \A s \in RunSet \cap {"hardware", "isis", "routes", "route_summary"} :
            (s = "hardware" => "memtotal_mb" \in DOMAIN facts) =>
                {Namespaced(f) : f \in {g \in DOMAIN facts : facts[g] = <<s>>}}
                    = IosxrReturnKeys(s)

\* C23 as stated: in iosxr_facts, when several subsets are selected, each
\* subset's turn sends the concatenated command list of all selected
\* subsets to the device.
C23_FullListEverySubsetTurn ==
    (mod = "iosxr" /\ Cardinality(RunSet) > 1) =>
        \A j \in DOMAIN calls :
            calls[j].commands =
                Flatten([n \in DOMAIN instances |-> IosxrCommands(instances[n])])

\* C23 as amended: in iosxr_facts, when several subsets are selected, each
\* subset's turn sends only that subset's own command list; over the turns
\* taken so far the device is sent the concatenation of those subsets' lists,
\* each list once, without deduplication and without any other selected
\* subset's commands.
C23_OwnListEverySubsetTurn ==
    (mod = "iosxr" /\ Cardinality(RunSet) > 1) =>
        /\ Flatten([j \in DOMAIN calls |-> calls[j].commands]) =
               Flatten([j \in DOMAIN calls |-> IosxrCommands(instances[j])])
        /\ \A j \in DOMAIN calls :
                /\ Len(calls[j].commands) = Len(IosxrCommands(calls[j].by))
                /\ \A s \in RunSet \ {calls[j].by} :
                        Range(IosxrCommands(s)) \cap Range(calls[j].commands) = {}

C23_Witness ==
    /\ mod = "iosxr"
    /\ Completed
    /\ RunSet = {"default", "config", "hardware"}
    /\ \E j \in DOMAIN calls :
        /\ calls[j].by = "config"
        /\ calls[j].commands = <<"show running-config">>
    /\ Len(Flatten([j \in DOMAIN calls |-> calls[j].commands])) = 7

\* The keys the populate step of a subset of the module's catalog can write.
FactKeys(s) ==
    IF mod = "iosxr" THEN IosxrFactKeys(s, TRUE) ELSE JunosFactKeys(s)

\* No two subsets of the iosxr catalog can write the same key, and none can
\* write 'gather_subset'.
IosxrKeysApart ==
    /\ \A s, t \in VALID_SUBSETS("iosxr") :
            s # t => IosxrFactKeys(s, TRUE) \cap IosxrFactKeys(t, TRUE) = {}
    /\ \A s \in VALID_SUBSETS("iosxr") :
            "gather_subset" \notin IosxrFactKeys(s, TRUE)

\* The same of the junos catalog.
JunosKeysApart ==
    /\ \A s, t \in VALID_SUBSETS("junos") :
            s # t => JunosFactKeys(s) \cap JunosFactKeys(t) = {}
    /\ \A s \in VALID_SUBSETS("junos") : "gather_subset" \notin JunosFactKeys(s)

C25_RunSetWithinCatalog ==
    /\ outcome.msg.text # "KeyError"
    /\ Resolved =>
        /\ RunSet \subseteq DOMAIN FACT_SUBSETS(mod)
        /\ Len(facts["gather_subset"]) = Cardinality(RunSet)
        /\ pc # "construct" =>
            /\ Range(instances) = RunSet
            /\ Len(instances) = Cardinality(RunSet)
            /\ \A j \in DOMAIN instances :
                    FACT_SUBSETS(mod)[instances[j]] \in Range(IF mod = "iosxr"
                        THEN IosxrClasses ELSE JunosClasses)

C25_Witness ==
    /\ Resolved
    /\ pc = "collect"
    /\ mod = "junos"
    /\ gather_subset = <<Tok("all"), Not("l2vpn")>>
    /\ Len(instances) = 14
    /\ FACT_SUBSETS(mod)[instances[5]] = "InterfacesExt"

\* C26: The outcome of resolution does not depend on token order or
\* repetition: a permutation of a token list, or a list repeating some of
\* its tokens, resolves to the same RunSet as the list itself, and fails
\* exactly when the list fails, that is exactly when some token is invalid,
\* wherever it stands.
C26_OrderAndRepetitionIrrelevant ==
    /\ pc # "resolve" => ((outcome.kind = "fail_json") = ~AllTokensValid)
    /\ (invocation = 2 /\ pc # "resolve") =>
        /\ (outcome.kind = "fail_json") = first.failed
        /\ ~first.failed => RunSet = first.RunSet

C26_Witness ==
    /\ invocation = 2
    /\ Completed
    /\ gather_subset = <<Not("hardware"), Tok("all"), Tok("hardware")>>
    /\ ~first.failed
    /\ first.RunSet = ValidNames \ {"hardware"}
    /\ RunSet = first.RunSet

\* C27: For every valid token list that contains '!all', the RunSet is
\* exactly {default}, whatever other tokens the list contains and wherever
\* '!all' stands: the default extractor is the only one constructed and run.
C27_NotAllLeavesDefault ==
    (Resolved /\ Not("all") \in Tokens) =>
        /\ RunSet = {"default"}
        /\ facts["gather_subset"] = <<"default">>
        /\ pc # "construct" => instances = <<"default">>

C27_Witness ==
    /\ Completed
    /\ gather_subset = <<Tok("hardware"), Not("all"), Tok("all")>>
    /\ RunSet = {"default"}
    /\ Len(calls) > 0
    /\ \A j \in DOMAIN calls : calls[j].by = "default"

\* C28: iosxr_facts ends every invocation through exit_json or fail_json: an
\* error raised by run_commands or by the populate step of any selected
\* subset, the first one processed included, is caught and reported by the
\* handler, which finds 'results' defined and completes.
C28_EveryInvocationEndsReported ==
    (mod = "iosxr" /\ pc = "exited") =>
        /\ outcome.kind \in {"exit_json", "fail_json"}
        /\ CollectFailed => results.bound

\* C29: In iosxr_facts, while no step has failed, run_commands has been
\* called exactly once for each subset processed so far, each time with that
\* subset's own commands() list, and the steps are sequential per subset:
\* when the next subset's commands are about to be issued, every earlier
\* subset's responses have been populated and merged into the fact map; all
\* extractor instances are constructed before the first command is issued.
\* A run without failures ends with one call per RunSet member.
C29_SequentialPerSubset ==
    mod = "iosxr" =>
        /\ calls # <<>> =>
            /\ constructed = RunSet
            /\ Len(instances) = Cardinality(RunSet)
        /\ (pc = "collect" \/ Completed) =>
            /\ Len(calls) = k - 1
            /\ Len(populates) = k - 1
            /\ \A j \in 1..(k - 1) :
                /\ calls[j].by = instances[j]
                /\ calls[j].commands = IosxrCommands(instances[j])
                /\ populates[j].by = instances[j]
                /\ populates[j].calls_before = j
                /\ IosxrFactKeys(instances[j], FALSE) \subseteq DOMAIN facts
        /\ Completed =>
            \A s \in RunSet :
                Cardinality({j \in DOMAIN calls : calls[j].by = s}) = 1

C29_Witness ==
    /\ mod = "iosxr"
    /\ pc = "collect"
    /\ Len(instances) = 3
    /\ k = 3
    /\ Len(calls) = 2
    /\ calls[2].by = "hardware"
    /\ {"version", "temp"} \subseteq DOMAIN facts
    /\ "config" \notin DOMAIN facts

\* The first whitespace-separated token of the system description, if it
\* has one.
FirstToken ==
    LET words == SelectSeq(sysdescr, LAMBDA piece : piece # " ")
    IN  IF words = <<>> THEN <<>> ELSE <<words[1]>>

\* C30: decode_os yields a result for every sysdescr string: main() ends
\* with exactly the five keys ansible_os_vendor, ansible_os_model,
\* ansible_os_type, ansible_os_version and ansible_os_buildtime, never with
\* an error, and the vendor, if the string has a token, is its first token.
C30_DecodeOsAlwaysYields ==
    (mod = "parse_snmp_sysdescr" /\ pc = "exited") =>
        /\ outcome.kind = "exit_json"
        /\ DOMAIN outcome.ansible_facts = OsKeys
        /\ FirstToken # <<>> =>
                outcome.ansible_facts["ansible_os_vendor"] = FirstToken[1]

====
